---- MODULE Spec2Model ----
(***************************************************************************)
(* Model of two indicators of pandas_ta: the smoothed moving average       *)
(* (overlap/smma.py) and the aberration bands (volatility/aberration.py).  *)
(* A call is one action: from the idle state the caller picks the inputs,  *)
(* the action runs the whole function and records its locals and its       *)
(* return value.  Prices are exact rationals <<num, den>> (den > 0); the   *)
(* missing marker nan is <<0, 0>>.  Position p of a pandas Series is       *)
(* index p + 1 of the sequence that models it.                             *)
(***************************************************************************)
EXTENDS Integers, Sequences, FiniteSets, TLC

VARIABLES op, args, length, atr_length, status, calc, ret

vars == <<op, args, length, atr_length, status, calc, ret>>

(* ------------------------------ bounds --------------------------------- *)

\* longest enumerated input series
MaxN == 4
\* largest enumerated length / atr_length argument
MaxLen == 3
\* largest enumerated |offset|
MaxOff == 1

(* ----------------------------- rationals ------------------------------- *)

nan == <<0, 0>>

IsNaN(x) == x[2] = 0

Abs(i) == IF i < 0 THEN -i ELSE i

Max(a, b) == IF a >= b THEN a ELSE b

RECURSIVE GCD(_, _)
GCD(a, b) == IF b = 0 THEN a ELSE GCD(b, a % b)

Norm(x) ==
    LET g == GCD(Abs(x[1]), x[2])
    IN  <<x[1] \div g, x[2] \div g>>

Rat(i) == <<i, 1>>

RAdd(x, y) ==
    IF IsNaN(x) \/ IsNaN(y) THEN nan
    ELSE Norm(<<x[1] * y[2] + y[1] * x[2], x[2] * y[2]>>)

RSub(x, y) ==
    IF IsNaN(x) \/ IsNaN(y) THEN nan
    ELSE Norm(<<x[1] * y[2] - y[1] * x[2], x[2] * y[2]>>)

RScale(k, x) == IF IsNaN(x) THEN nan ELSE Norm(<<k * x[1], x[2]>>)

RDiv(x, k) == IF IsNaN(x) THEN nan ELSE Norm(<<x[1], x[2] * k>>)

RAbs(x) == <<Abs(x[1]), x[2]>>

\* the larger of two values, a missing one skipped (DataFrame.max(axis=1))
RMaxSkip(x, y) ==
    IF IsNaN(x) THEN y
    ELSE IF IsNaN(y) THEN x
    ELSE IF x[1] * y[2] >= y[1] * x[2] THEN x ELSE y

RECURSIVE RSum(_, _, _)
RSum(s, lo, hi) == IF lo > hi THEN Rat(0) ELSE RAdd(s[lo], RSum(s, lo + 1, hi))

(* ------------------------- pandas Series ------------------------------- *)

ToSeries(ints) == [i \in 1..Len(ints) |-> Rat(ints[i])]

HasNaN(s) == \E i \in 1..Len(s) : IsNaN(s[i])

\* variant: the shift runs the other way
Shift_Reversed(s, k) ==
    [i \in 1..Len(s) |-> IF i + k >= 1 /\ i + k <= Len(s) THEN s[i + k] ELSE nan]

\* variant: the vacated positions are dropped instead of marked missing
Shift_Dropping(s, k) ==
    IF k >= 0 THEN SubSeq(s, 1, Len(s) - k) ELSE SubSeq(s, 1 - k, Len(s))

\* Series.shift(k): position i takes the value of position i - k
Shift(s, k) ==
    [i \in 1..Len(s) |-> IF i - k >= 1 /\ i - k <= Len(s) THEN s[i - k] ELSE nan]

\* Series.fillna(value)
FillValue(s, f) == [i \in 1..Len(s) |-> IF IsNaN(s[i]) THEN Rat(f) ELSE s[i]]

RECURSIVE PrevValid(_, _)
PrevValid(s, i) ==
    IF i < 1 THEN nan ELSE IF IsNaN(s[i]) THEN PrevValid(s, i - 1) ELSE s[i]

RECURSIVE NextValid(_, _)
NextValid(s, i) ==
    IF i > Len(s) THEN nan ELSE IF IsNaN(s[i]) THEN NextValid(s, i + 1) ELSE s[i]

\* Series.fillna(method=...)
FillMethod(s, method) ==
    IF method \in {"ffill", "pad"} THEN [i \in 1..Len(s) |-> PrevValid(s, i)]
    ELSE [i \in 1..Len(s) |-> NextValid(s, i)]

(* ------------------------ keyword arguments ---------------------------- *)

\* an argument left at None
NoneLen == <<0, 0>>
\* a keyword that is not in kwargs / an argument that is None
Absent == <<FALSE, 0>>
Some(x) == <<TRUE, x>>
NoMethod == "<absent>"
NoMode == "<None>"

(* ------------------------------- smma ---------------------------------- *)

DefaultLength == 7

\* int(x) of a number x = num/den: truncation toward zero
IntOf(x) == IF x[1] >= 0 THEN x[1] \div x[2] ELSE -((-x[1]) \div x[2])

\* smma.py:44  length = int(length) if length and length > 0 else 7
SmmaLength(arg) ==
    IF arg # NoneLen /\ arg[1] # 0 /\ arg[1] > 0 THEN IntOf(arg) ELSE DefaultLength

\* smma.py:45  min_periods from kwargs, else length
SmmaMinPeriods(len, mp) == IF mp[1] THEN mp[2] ELSE len

\* variant: the smaller of length and min_periods
SmmaMinLength_Min(len, mp) == IF mp[1] /\ mp[2] < len THEN mp[2] ELSE len

\* smma.py:46  the bound handed to verify_series
SmmaMinLength(len, mp) == Max(len, SmmaMinPeriods(len, mp))

\* utils.verify_series: the series, or None when it is shorter than min_length
verify_series(series, min_length) == Len(series) >= min_length

\* utils.get_offset: int(x) for a number, else 0
get_offset(x) == IF x[1] THEN x[2] ELSE 0

\* smma.py:48  mamode.lower() if isinstance(mamode, str) else "sma"
Lower(s) ==
    CASE s = "SMA" -> "sma"
      [] s = "WMA" -> "wma"
      [] OTHER -> s

SmmaMode(mamode) == IF mamode # NoMode THEN Lower(mamode) ELSE "sma"

RECURSIVE WSum(_, _)
WSum(s, i) == IF i = 0 THEN Rat(0) ELSE RAdd(RScale(i, s[i]), WSum(s, i - 1))

\* ma(mamode, window, length=length).iloc[-1] over a window of exactly length
\* values: the simple mean, or the linearly weighted mean (weights 1..length)
ma(mode, window, len) ==
    IF mode = "wma" THEN RDiv(WSum(window, len), (len * (len + 1)) \div 2)
    ELSE RDiv(RSum(window, 1, len), len)

\* ma returns a series only for a length above zero and a window that holds
\* length values (the sub-indicator's own validation); smma.py:57 takes .iloc
\* of what it returns, which raises on None
ma_ok(close, len) == len >= 1 /\ Len(close) >= len

\* smma.py:57  the seed written at position length - 1
SmmaSeed(close, len, mode) == ma(mode, SubSeq(close, 1, len), len)

\* variants: the previous value weighted by length, or not weighted at all
SmmaStep_Heavy(prev, cur, len) == RDiv(RAdd(RScale(len, prev), cur), len)

SmmaStep_Unweighted(prev, cur, len) == RDiv(RAdd(prev, cur), len)

\* smma.py:60  one step of the recurrence
SmmaStep(prev, cur, len) == RDiv(RAdd(RScale(len - 1, prev), cur), len)

\* smma.py:59-60  for i in range(length, m), on the copy being overwritten
RECURSIVE SmmaLoop(_, _, _)
SmmaLoop(smma, i, len) ==
    IF i > Len(smma) THEN smma
    ELSE SmmaLoop([smma EXCEPT ![i] = SmmaStep(smma[i - 1], smma[i], len)], i + 1, len)

\* variant: the leading positions keep the input
SmmaBlank_None(close, len) == close

\* smma.py:55-56  smma = close.copy(); smma[:length - 1] = nan
SmmaBlank(close, len) == [i \in 1..Len(close) |-> IF i <= len - 1 THEN nan ELSE close[i]]

\* smma.py:54-60
SmmaCalc(close, len, mode) ==
    LET blank  == SmmaBlank(close, len)
        seeded == [blank EXCEPT ![len] = SmmaSeed(close, len, mode)]
    IN  SmmaLoop(seeded, len + 1, len)

\* variant: the fills run before the offset
SmmaPost_FillFirst(s, offset, fillna, fill_method) ==
    LET a == IF fillna[1] THEN FillValue(s, fillna[2]) ELSE s
        b == IF fill_method # NoMethod THEN FillMethod(a, fill_method) ELSE a
    IN  IF offset # 0 THEN Shift(b, offset) ELSE b

\* smma.py:62-70  offset, then fillna(value), then fillna(method)
SmmaPost(s, offset, fillna, fill_method) ==
    LET a == IF offset # 0 THEN Shift(s, offset) ELSE s
        b == IF fillna[1] THEN FillValue(a, fillna[2]) ELSE a
    IN  IF fill_method # NoMethod THEN FillMethod(b, fill_method) ELSE b

(* ---------------------------- aberration ------------------------------- *)

AberDefaultLength == 5

AberDefaultAtrLength == 15

\* utils.v_pos_default: the value when it is an integer above zero, else the default
v_pos_default(var, default) == IF var[1] /\ var[2] > 0 THEN var[2] ELSE default

\* variant: the observation that seeds the true range is not counted
AberMinLength_NoSeed(len, atr_len) == Max(atr_len, len)

\* aberration.py:52  _length = max(atr_length, length) + 1
AberMinLength(len, atr_len) == Max(atr_len, len) + 1

\* utils.v_series: the series, or None when it is shorter than the bound
v_series(series, min_length) == Len(series) >= min_length

\* utils.v_offset: int(x) for an integer, else 0
v_offset(x) == IF x[1] THEN x[2] ELSE 0

\* index alignment of a binary operation: a position a series lacks is missing
Align(s, n) == [i \in 1..n |-> IF i <= Len(s) THEN s[i] ELSE nan]

SeriesAdd(a, b) == [i \in 1..Len(a) |-> RAdd(a[i], b[i])]

SeriesSub(a, b) == [i \in 1..Len(a) |-> RSub(a[i], b[i])]

\* overlap.hlc3: (high + low + close) / 3
hlc3(high, low, close) ==
    [i \in 1..Len(close) |-> RDiv(RAdd(RAdd(high[i], low[i]), close[i]), 3)]

\* overlap.sma: the mean of the last len values, missing over the first len - 1
sma(s, len) ==
    [i \in 1..Len(s) |-> IF i < len THEN nan ELSE RDiv(RSum(s, i - len + 1, i), len)]

RMax(x, y) == IF IsNaN(x) \/ IsNaN(y) THEN nan ELSE RMaxSkip(x, y)

\* volatility.true_range: max(high - low, |high - prev_close|, |low - prev_close|),
\* missing at position 0, which has no previous close
true_range(high, low, close) ==
    [i \in 1..Len(close) |->
        IF i = 1 THEN nan
        ELSE RMax(RSub(high[i], low[i]),
                  RMax(RAbs(RSub(high[i], close[i - 1])),
                       RAbs(RSub(low[i], close[i - 1]))))]

RECURSIVE AtrLoop(_, _, _, _)
AtrLoop(out, tr, i, len) ==
    IF i > Len(out) THEN out
    ELSE AtrLoop([out EXCEPT ![i] = RDiv(RAdd(RScale(len - 1, out[i - 1]), tr[i]), len)],
                 tr, i + 1, len)

\* volatility.atr: Wilder's average of the true range; the first value, at
\* position len, is the mean of the true ranges of positions 1..len
atr(high, low, close, len) ==
    LET tr    == true_range(high, low, close)
        blank == [i \in 1..Len(tr) |-> nan]
        seed  == [blank EXCEPT ![len + 1] = RDiv(RSum(tr, 2, len + 1), len)]
    IN  AtrLoop(seed, tr, len + 2, len)

\* atr's own validation: each series holds at least len + 1 observations
atr_ok(high, low, close, len) ==
    v_series(high, len + 1) /\ v_series(low, len + 1) /\ v_series(close, len + 1)

\* sma's own validation: the series holds at least len observations
sma_ok(n, len) == n >= len

\* variant: the upper band subtracts
AberSg_Minus(zg, atr_) == SeriesSub(zg, atr_)

\* aberration.py:67  sg = zg + atr_
AberSg(zg, atr_) == SeriesAdd(zg, atr_)

\* aberration.py:68  xg = zg - atr_
AberXg(zg, atr_) == SeriesSub(zg, atr_)

\* aberration.py:70-87  per column: offset, then fillna(value), then fillna(method)
AberPost(s, offset, fillna, fill_method) ==
    LET a == IF offset # 0 THEN Shift(s, offset) ELSE s
        b == IF fillna[1] THEN FillValue(a, fillna[2]) ELSE a
    IN  IF fill_method # NoMethod THEN FillMethod(b, fill_method) ELSE b

AberCols == {"ABER_ZG", "ABER_SG", "ABER_XG", "ABER_ATR"}

\* aberration.py:98-99  data = {zg.name: zg, ...}; DataFrame(data)
AberTable(zg, sg, xg, atr_) ==
    [c \in AberCols |->
        CASE c = "ABER_ZG" -> zg
          [] c = "ABER_SG" -> sg
          [] c = "ABER_XG" -> xg
          [] OTHER -> atr_]

NoTable == [c \in {} |-> <<>>]

Table1(name, s) == [c \in {name} |-> s]

(* ------------------------------ inputs --------------------------------- *)

Vals == {1, 3}

RECURSIVE SeqsOfLen(_)
SeqsOfLen(n) ==
    IF n = 0 THEN {<<>>}
    ELSE {Append(s, v) : s \in SeqsOfLen(n - 1), v \in Vals}

Ramp10 == <<1, 2, 3, 4, 5, 6, 7, 8, 9, 10>>

CloseInputs == UNION {SeqsOfLen(n) : n \in 0..MaxN} \cup {Ramp10}

LengthArgs ==
    {NoneLen, <<0, 1>>, <<-1, 1>>, <<1, 2>>, <<5, 2>>} \cup {<<k, 1>> : k \in 1..MaxLen}

MinPeriodsArgs == {Absent, Some(2)}

ModeArgs == {NoMode, "SMA", "WMA"}

OffsetArgs == {Absent} \cup {Some(k) : k \in (-MaxOff)..MaxOff}

FillnaArgs == {Absent, Some(7)}

FillMethodArgs == {NoMethod, "ffill", "bfill"}

Ramp16 == <<1, 2, 3, 4, 5, 6, 7, 8, 9, 10, 11, 12, 13, 14, 15, 16>>

AberCloseInputs == UNION {SeqsOfLen(n) : n \in 0..MaxN} \cup {Ramp16}

\* the series of a call that lacks the last observation of the others
ShortArgs == {"none", "high", "close"}

DropLast(s) == IF Len(s) = 0 THEN s ELSE SubSeq(s, 1, Len(s) - 1)

HighOf(close) == [i \in 1..Len(close) |-> close[i] + 1]

LowOf(close) == [i \in 1..Len(close) |-> close[i] - 1]

AberLengthArgs == {Absent, Some(0)} \cup {Some(k) : k \in 1..MaxLen}

AberAtrLengthArgs == {Absent, Some(1), Some(2)}

NoArgs == [close |-> <<>>]

(* ------------------------------ actions -------------------------------- *)

Init ==
    /\ op = "idle"
    /\ args = NoArgs
    /\ length = 0
    /\ atr_length = 0
    /\ status = "none"
    /\ calc = NoTable
    /\ ret = NoTable

\* smma.py:8-76
smma(close, length_arg, mamode, offset_arg, min_periods, fillna, fill_method) ==
    LET len    == SmmaLength(length_arg)
        ok     == verify_series(close, SmmaMinLength(len, min_periods))
        offset == get_offset(offset_arg)
        mode   == SmmaMode(mamode)
    IN  /\ op' = "smma"
        /\ args' = [close |-> close, length |-> length_arg, mamode |-> mamode,
                    offset |-> offset_arg, min_periods |-> min_periods,
                    fillna |-> fillna, fill_method |-> fill_method]
        /\ length' = len
        /\ atr_length' = 0
        /\ IF ~ok
           THEN status' = "absent" /\ calc' = NoTable /\ ret' = NoTable
           ELSE IF ~ma_ok(close, len)
           THEN status' = "raised" /\ calc' = NoTable /\ ret' = NoTable
           ELSE \E series \in {SmmaCalc(ToSeries(close), len, mode)} :
                    /\ status' = "ok"
                    /\ calc' = Table1("SMMA", series)
                    /\ ret' = Table1("SMMA", SmmaPost(series, offset, fillna, fill_method))

SmmaCall ==
    /\ op = "idle"
    /\ \E close \in CloseInputs, length_arg \in LengthArgs, mamode \in ModeArgs,
          offset_arg \in OffsetArgs, min_periods \in MinPeriodsArgs,
          fillna \in FillnaArgs, fill_method \in FillMethodArgs :
           smma(close, length_arg, mamode, offset_arg, min_periods, fillna, fill_method)

\* aberration.py:9-103
aberration(high, low, close, length_arg, atr_length_arg, offset_arg, fillna, fill_method) ==
    LET len     == v_pos_default(length_arg, AberDefaultLength)
        atr_len == v_pos_default(atr_length_arg, AberDefaultAtrLength)
        _length == AberMinLength(len, atr_len)
        ok      == v_series(high, _length) /\ v_series(low, _length) /\ v_series(close, _length)
        offset  == v_offset(offset_arg)
        n       == Max(Len(high), Max(Len(low), Len(close)))
        h       == Align(ToSeries(high), n)
        l       == Align(ToSeries(low), n)
        c       == Align(ToSeries(close), n)
    IN  /\ op' = "aberration"
        /\ args' = [high |-> high, low |-> low, close |-> close, length |-> length_arg,
                    atr_length |-> atr_length_arg, offset |-> offset_arg,
                    fillna |-> fillna, fill_method |-> fill_method]
        /\ length' = len
        /\ atr_length' = atr_len
        /\ IF ~ok
           THEN status' = "absent" /\ calc' = NoTable /\ ret' = NoTable
           ELSE IF ~(atr_ok(high, low, close, atr_len) /\ sma_ok(n, len))
           THEN status' = "raised" /\ calc' = NoTable /\ ret' = NoTable
           ELSE \E atr_ \in {atr(h, l, c, atr_len)}, jg \in {hlc3(h, l, c)} :
                \E zg \in {sma(jg, len)} :
                \E sg \in {AberSg(zg, atr_)}, xg \in {AberXg(zg, atr_)} :
                    /\ status' = "ok"
                    /\ calc' = AberTable(zg, sg, xg, atr_)
                    /\ ret' = AberTable(AberPost(zg, offset, fillna, fill_method),
                                        AberPost(sg, offset, fillna, fill_method),
                                        AberPost(xg, offset, fillna, fill_method),
                                        AberPost(atr_, offset, fillna, fill_method))

AberrationCall ==
    /\ op = "idle"
    /\ \E close \in AberCloseInputs, short \in ShortArgs, length_arg \in AberLengthArgs,
          atr_length_arg \in AberAtrLengthArgs, offset_arg \in OffsetArgs,
          fillna \in FillnaArgs, fill_method \in FillMethodArgs :
           aberration(IF short = "high" THEN DropLast(HighOf(close)) ELSE HighOf(close),
                      LowOf(close),
                      IF short = "close" THEN DropLast(close) ELSE close,
                      length_arg, atr_length_arg, offset_arg, fillna, fill_method)

Next == SmmaCall \/ AberrationCall

Spec == Init /\ [][Next]_vars

(* ------------------------- reading a state ----------------------------- *)

SmmaOk == op = "smma" /\ status = "ok"

AberOk == op = "aberration" /\ status = "ok"

NoFill == ~args.fillna[1] /\ args.fill_method = NoMethod

OffsetOf == IF args.offset[1] THEN args.offset[2] ELSE 0

SmaMode == args.mamode \in {NoMode, "sma", "SMA"}

NumPos == Len(args.close)

Valid(x) == x[2] > 0

RECURSIVE SumInts(_, _)
SumInts(x, i) == IF i = 0 THEN 0 ELSE x[i] + SumInts(x, i - 1)

\* every column has a value at position i
AllValidAt(t, i) == \A c \in DOMAIN t : Valid(t[c][i])

BandsAt(t, i) ==
    /\ t["ABER_SG"][i] = RAdd(t["ABER_ZG"][i], t["ABER_ATR"][i])
    /\ t["ABER_XG"][i] = RSub(t["ABER_ZG"][i], t["ABER_ATR"][i])

(* ------------------------------ claims --------------------------------- *)

\* C1 as stated: in every table aberration returns, whatever the offset and
\* the fill options (a literal fillna value included), ABER_SG = ABER_ZG +
\* ABER_ATR and ABER_XG = ABER_ZG - ABER_ATR at every position where the
\* four columns are non-missing.
C1_BandsAnyFill ==
    AberOk =>
        \A i \in 1..Len(ret["ABER_ZG"]) : AllValidAt(ret, i) => BandsAt(ret, i)

\* C1 amended: when neither fillna nor fill_method is configured, for every
\* offset, ABER_SG = ABER_ZG + ABER_ATR and ABER_XG = ABER_ZG - ABER_ATR at
\* every position where the four returned columns are non-missing.
C1_BandsNoFill ==
    (AberOk /\ NoFill) =>
        \A i \in 1..Len(ret["ABER_ZG"]) : AllValidAt(ret, i) => BandsAt(ret, i)

C1_Witness ==
    /\ AberOk /\ NoFill /\ OffsetOf # 0
    /\ \E i \in 1..Len(ret["ABER_ZG"]) :
          /\ AllValidAt(ret, i)
          /\ ret["ABER_ATR"][i][1] > 0
          /\ ret["ABER_SG"][i] # ret["ABER_XG"][i]

\* the seed is the mean of the first length inputs and every later position
\* follows the recurrence on the original input
SeedAndRecurrence ==
    LET r == ret["SMMA"]
        x == args.close
    IN  /\ Valid(r[length])
        /\ r[length][1] * length = SumInts(x, length) * r[length][2]
        /\ \A i \in (length + 1)..NumPos :
              /\ Valid(r[i])
              /\ r[i][1] * length * r[i - 1][2]
                   = r[i][2] * ((length - 1) * r[i - 1][1] + x[i] * r[i - 1][2])

\* C2 as stated: smma with offset 0, no fill and bootstrap mode sma: position
\* length - 1 holds the arithmetic mean of the first length inputs, and every
\* later position i holds ((length - 1) * output[i-1] + input[i]) / length,
\* input[i] being the original input value; input 1..10 with length 3 gives
\* 2, 8/3, 28/9 at positions 2, 3, 4.
C2_AsStated ==
    (SmmaOk /\ OffsetOf = 0 /\ NoFill /\ SmaMode) =>
        /\ SeedAndRecurrence
        /\ (args.close = Ramp10 /\ length = 3) =>
              /\ ret["SMMA"][3] = <<2, 1>>
              /\ ret["SMMA"][4] = <<8, 3>>
              /\ ret["SMMA"][5] = <<28, 9>>

\* C2 amended: the same seed and recurrence; input 1..10 with length 3 gives
\* 2, 8/3, 31/9 at positions 2, 3, 4 (31/9 = (2 * 8/3 + 5) / 3).
C2_SeedAndRecurrence ==
    (SmmaOk /\ OffsetOf = 0 /\ NoFill /\ SmaMode) =>
        /\ SeedAndRecurrence
        /\ (args.close = Ramp10 /\ length = 3) =>
              /\ ret["SMMA"][3] = <<2, 1>>
              /\ ret["SMMA"][4] = <<8, 3>>
              /\ ret["SMMA"][5] = <<31, 9>>

C2_Witness ==
    /\ SmmaOk /\ OffsetOf = 0 /\ NoFill /\ SmaMode
    /\ args.close = Ramp10 /\ length = 3
    /\ Valid(ret["SMMA"][10])
    /\ ret["SMMA"][5][1] * 3 * ret["SMMA"][4][2]
         = ret["SMMA"][5][2] * (2 * ret["SMMA"][4][1] + 5 * ret["SMMA"][4][2])

\* C3 as stated: with no fill option, the first length - 1 positions of the
\* series smma returns are missing, for every offset (zero, positive or
\* negative).
C3_LeadingMissingAnyOffset ==
    (SmmaOk /\ NoFill) =>
        \A i \in 1..NumPos : i <= length - 1 => IsNaN(ret["SMMA"][i])

\* C3 amended: with no fill option, the first length - 1 + offset positions
\* of the series smma returns are missing: at least the first length - 1 for
\* an offset of zero or more, and only the first length - 1 - |offset| for a
\* negative offset.
C3_LeadingMissing ==
    (SmmaOk /\ NoFill) =>
        \A i \in 1..NumPos : i <= length - 1 + OffsetOf => IsNaN(ret["SMMA"][i])

C3_Witness ==
    /\ SmmaOk /\ NoFill /\ OffsetOf < 0
    /\ length - 1 + OffsetOf >= 1
    /\ IsNaN(ret["SMMA"][length - 1 + OffsetOf])
    /\ Valid(ret["SMMA"][length - 1])

\* C4: smma returns None, without raising and without running the seed or
\* the recurrence, exactly when the input has fewer than max(length,
\* min_periods) observations (min_periods being the normalized length when not
\* given): always when it has fewer than length, never when it has at least
\* length and min_periods is not given.
C4_AbsentIffShort ==
    op = "smma" =>
        LET mp == IF args.min_periods[1] THEN args.min_periods[2] ELSE length
        IN  /\ status = "absent" <=> NumPos < Max(length, mp)
            /\ status = "absent" => calc = NoTable /\ ret = NoTable
            /\ NumPos < length => status = "absent"
            /\ (NumPos >= length /\ ~args.min_periods[1]) => status # "absent"

C4_Witness ==
    /\ op = "smma" /\ status = "absent"
    /\ args.min_periods[1]
    /\ NumPos >= length /\ NumPos >= 1
    /\ NumPos < args.min_periods[2]

\* C5: the length smma uses is a positive integer: 7 for a length argument
\* that is unset, zero or negative, and a positive integer for every positive
\* length argument, integer or not.
C5_LengthPositive ==
    op = "smma" =>
        /\ length >= 1
        /\ (args.length = NoneLen \/ args.length[1] <= 0) => length = 7

\* C6: with a literal fill value f configured, no series smma returns and no
\* column aberration returns holds a missing value, for every offset and also
\* with a fill_method configured: each position holds the shifted value, or f
\* where the shifted series is missing.
C6_LiteralFillLeavesNoGap ==
    (status = "ok" /\ args.fillna[1]) =>
        \A c \in DOMAIN ret :
            /\ Len(ret[c]) = Len(calc[c])
            /\ \A i \in 1..Len(ret[c]) :
                  LET j == i - OffsetOf
                  IN  /\ Valid(ret[c][i])
                      /\ ret[c][i] =
                           IF j >= 1 /\ j <= Len(calc[c]) /\ Valid(calc[c][j])
                           THEN calc[c][j] ELSE <<args.fillna[2], 1>>

C6_Witness ==
    /\ AberOk /\ args.fillna[1] /\ args.fill_method = "bfill" /\ OffsetOf < 0
    /\ \E i \in 1..Len(calc["ABER_SG"]) : IsNaN(calc["ABER_SG"][i])
    /\ \A c \in DOMAIN ret : ~HasNaN(ret[c])

\* C7: for a constant input of value v with at least length observations
\* (offset 0, no fill, bootstrap mode sma), smma's output equals v at position
\* length - 1 and at every later position.
C7_ConstantInput ==
    (SmmaOk /\ OffsetOf = 0 /\ NoFill /\ SmaMode
        /\ \A i \in 1..NumPos : args.close[i] = args.close[1]) =>
        \A i \in length..NumPos : ret["SMMA"][i] = <<args.close[1], 1>>

C7_Witness ==
    /\ SmmaOk /\ OffsetOf = 0 /\ NoFill /\ SmaMode
    /\ \A i \in 1..NumPos : args.close[i] = 3
    /\ length >= 2 /\ NumPos >= length + 2
    /\ ret["SMMA"][NumPos] = <<3, 1>>

\* C8: the offset is a positional shift: with offset 0 the computed series is
\* returned as it is; with offset k position i holds the computed value of
\* position i - k, or is missing when there is none; and shifting the result
\* by -k gives back the computed series at every position except those whose
\* value was shifted out of range, which are missing.
C8_OffsetShifts ==
    (status = "ok" /\ NoFill) =>
        \A c \in DOMAIN ret :
            LET k    == OffsetOf
                n    == Len(calc[c])
                back == Shift(ret[c], -k)
            IN  /\ Len(ret[c]) = n
                /\ k = 0 => ret[c] = calc[c]
                /\ \A i \in 1..n :
                      /\ ret[c][i] = IF i - k >= 1 /\ i - k <= n THEN calc[c][i - k] ELSE nan
                      /\ back[i] = IF i + k >= 1 /\ i + k <= n THEN calc[c][i] ELSE nan

C8_Witness ==
    /\ SmmaOk /\ NoFill /\ OffsetOf > 0
    /\ Valid(calc["SMMA"][NumPos])
    /\ Valid(ret["SMMA"][NumPos])
    /\ ret["SMMA"] # calc["SMMA"]
    /\ IsNaN(Shift(ret["SMMA"], -OffsetOf)[NumPos])

\* C9: every series smma returns, and every column aberration returns for
\* high, low and close of equal length, has exactly as many positions as the
\* input, for every length, offset and fill option.
C9_SameLength ==
    /\ SmmaOk => Len(ret["SMMA"]) = NumPos
    /\ (AberOk /\ Len(args.high) = NumPos /\ Len(args.low) = NumPos) =>
          \A c \in DOMAIN ret : Len(ret[c]) = NumPos

C9_Witness ==
    /\ AberOk /\ Len(args.high) = NumPos /\ Len(args.low) = NumPos
    /\ OffsetOf # 0 /\ args.fillna[1] /\ args.fill_method # NoMethod
    /\ \A c \in AberCols : Len(ret[c]) = NumPos

\* C10: aberration returns None, without raising and before any sub-indicator
\* is computed, exactly when one of high, low, close has fewer than
\* max(length, atr_length) + 1 observations, length and atr_length being the
\* normalized values (5 and 15 when unset or not positive); otherwise it
\* returns a table of exactly the four columns ZG, SG, XG, ATR.
C10_AbsentIffShort ==
    op = "aberration" =>
        LET need == Max(length, atr_length) + 1
        IN  /\ length = IF args.length[1] /\ args.length[2] > 0 THEN args.length[2] ELSE 5
            /\ atr_length =
                 IF args.atr_length[1] /\ args.atr_length[2] > 0 THEN args.atr_length[2] ELSE 15
            /\ status = "absent" <=>
                 \E s \in {args.high, args.low, args.close} : Len(s) < need
            /\ status = "absent" => calc = NoTable /\ ret = NoTable
            /\ status # "absent" =>
                 /\ status = "ok"
                 /\ DOMAIN ret = {"ABER_ZG", "ABER_SG", "ABER_XG", "ABER_ATR"}

C10_Witness ==
    /\ op = "aberration" /\ status = "absent"
    /\ Len(args.close) >= Max(length, atr_length) + 1
    /\ Len(args.low) >= Max(length, atr_length) + 1
    /\ Len(args.high) = Max(length, atr_length)

====
